---- MODULE Spec2Model ----
(***************************************************************************)
(* Model of src/main.py: a FastAPI backend with health endpoints, a        *)
(* contact-form endpoint (fail-closed over the document store gateway)     *)
(* and a project-listing endpoint (fail-open, with static defaults).       *)
(*                                                                         *)
(* Every request is handled by one action that models the whole handler.   *)
(* The state is the module-level DEFAULT_PROJECTS list plus the last       *)
(* exchange: the endpoint hit, the request body, the calls the handler     *)
(* made on the gateway (with their outcomes) and the response.             *)
(*                                                                         *)
(* Python values are tagged records [t, v]:                                *)
(*   Str(s)   a str                 PyNone   None                          *)
(*   List(s)  a list, [] when s = "" and [s] otherwise                     *)
(*   Dict(f)  a dict with string keys, f its key -> value function         *)
(* Character strings whose content the code inspects (e-mail addresses,    *)
(* exception texts that get sliced) are tuples of one-character strings.   *)
(* The name and message of a contact body are only ever measured, so they  *)
(* are represented by their length.                                        *)
(***************************************************************************)
EXTENDS Integers, Sequences, FiniteSets, TLC

VARIABLES
    DEFAULT_PROJECTS,   \* the module-level list of default project dicts
    endpoint,           \* route of the last request ("" before the first)
    body,               \* <<>> or <<b>>: JSON body of the last request
    calls,              \* gateway calls made while handling the last request
    resp,               \* [status, body] of the last response
    served              \* number of requests handled so far

vars == <<DEFAULT_PROJECTS, endpoint, body, calls, resp, served>>

(***************************************************************************)
(* Bounds of the model.                                                    *)
(***************************************************************************)
MaxDocs == 3        \* longest fetched sequence built from CoreDocs
MaxRequests == 2    \* requests per behaviour
Slack == 1          \* how far around each length limit the bodies range

(***************************************************************************)
(* Python values.                                                          *)
(***************************************************************************)
Str(s) == [t |-> "str", v |-> s]
PyNone == [t |-> "none", v |-> ""]
List(s) == [t |-> "list", v |-> s]
Dict(f) == [t |-> "dict", v |-> f]

\* bool(x): None, "", [] and {} are falsy, everything else is truthy.
Truthy(x) ==
    CASE x.t = "none" -> FALSE
      [] x.t = "dict" -> DOMAIN x.v # {}
      [] OTHER -> x.v # ""

\* a or b
PyOr(a, b) == IF Truthy(a) THEN a ELSE b

\* d.get(k) for a dict d: the value, or None when the key is missing.
Get(d, k) == IF k \in DOMAIN d.v THEN d.v[k] ELSE PyNone

\* Whether d has a .get attribute at all: str, list and None do not, and
\* d.get(...) raises AttributeError on them.
HasGet(d) == d.t = "dict"

\* Python's text[:n]
Slice(text, n) == SubSeq(text, 1, IF Len(text) < n THEN Len(text) ELSE n)

\* Exception texts: n characters starting with c.
Text(c, n) == [i \in 1..n |-> IF i = 1 THEN c ELSE "x"]

\* str(e): the text the exception was raised with.
StrOfException(e) == e

(***************************************************************************)
(* class Project(BaseModel): title is a required str, location and image   *)
(* are Optional[str].  Construction validates and raises ValidationError.  *)
(* The non-str values of the model are lists, which no pydantic release    *)
(* coerces to str (numbers, which some releases coerce, are left out).     *)
(***************************************************************************)
IsStr(x) == x.t = "str"
IsOptionalStr(x) == x.t = "str" \/ x.t = "none"

NoProject == [title |-> PyNone, location |-> PyNone, image |-> PyNone]

Project(title, location, image) ==
    IF IsStr(title) /\ IsOptionalStr(location) /\ IsOptionalStr(image)
    THEN [raised |-> FALSE,
          value |-> [title |-> title, location |-> location, image |-> image]]
    ELSE [raised |-> TRUE, value |-> NoProject]

(***************************************************************************)
(* DEFAULT_PROJECTS, as the module body builds it.                         *)
(***************************************************************************)
InitialDefaults ==
    << Dict([title |-> Str("Courtyard Residence"),
             location |-> Str("Lisbon, Portugal"),
             image |-> Str("https://images.unsplash.com/photo-1501045661006-fcebe0257c3f?q=80&w=1600&auto=format&fit=crop")]),
       Dict([title |-> Str("Gallery Pavilion"),
             location |-> Str("Copenhagen, Denmark"),
             image |-> Str("https://images.unsplash.com/photo-1529429612777-95c0d0f2ad32?q=80&w=1600&auto=format&fit=crop")]),
       Dict([title |-> Str("Cliff House"),
             location |-> Str("Big Sur, USA"),
             image |-> Str("https://images.unsplash.com/photo-1519710164239-da123dc03ef4?q=80&w=1600&auto=format&fit=crop")]),
       Dict([title |-> Str("Cultural Center"),
             location |-> Str("Kyoto, Japan"),
             image |-> Str("https://images.unsplash.com/photo-1518770660439-4636190af475?q=80&w=1600&auto=format&fit=crop")]) >>

\* Faulty variant: the comprehension loses the last default.
DefaultsComprehensionDropLast(defaults) ==
    [raised |-> FALSE,
     items |-> [i \in 1..(Len(defaults) - 1) |->
                  Project(Get(defaults[i], "title"), Get(defaults[i], "location"),
                          Get(defaults[i], "image")).value]]

\* [Project(**p) for p in DEFAULT_PROJECTS]: raises when one construction does.
DefaultsComprehension(defaults) ==
    LET built == [i \in 1..Len(defaults) |->
                    Project(Get(defaults[i], "title"), Get(defaults[i], "location"),
                            Get(defaults[i], "image"))]
    IN  [raised |-> \E i \in 1..Len(defaults) : built[i].raised,
         items |-> [i \in 1..Len(defaults) |-> built[i].value]]

\* Faulty variant: "name" is read before "title".
MapDocNameFirst(d) ==
    IF ~HasGet(d)
    THEN [raised |-> TRUE, value |-> NoProject]
    ELSE Project(PyOr(PyOr(Get(d, "name"), Get(d, "title")), Str("Untitled")),
                 Get(d, "location"),
                 PyOr(Get(d, "image"), Get(d, "image_url")))

\* Faulty variant: d.get("title", "Untitled"), which keeps an empty title.
MapDocNoUntitled(d) ==
    IF ~HasGet(d)
    THEN [raised |-> TRUE, value |-> NoProject]
    ELSE Project(IF "title" \in DOMAIN d.v THEN d.v["title"] ELSE Str("Untitled"),
                 Get(d, "location"),
                 PyOr(Get(d, "image"), Get(d, "image_url")))

\* Variant that reads a record without .get as an empty dict.
MapDocLenient(d) ==
    LET m == IF HasGet(d) THEN d ELSE Dict(<<>>)
    IN  Project(PyOr(PyOr(Get(m, "title"), Get(m, "name")), Str("Untitled")),
                Get(m, "location"),
                PyOr(Get(m, "image"), Get(m, "image_url")))

(***************************************************************************)
(* The body of the for loop of list_projects, lines 131-135, for one       *)
(* fetched record d.                                                       *)
(***************************************************************************)
MapDoc(d) ==
    IF ~HasGet(d)
    THEN [raised |-> TRUE, value |-> NoProject]
    ELSE Project(PyOr(PyOr(Get(d, "title"), Get(d, "name")), Str("Untitled")),
                 Get(d, "location"),
                 PyOr(Get(d, "image"), Get(d, "image_url")))

\* Faulty variant: each Project is put in front of the earlier ones.
RECURSIVE MapLoopPrepend(_, _, _)
MapLoopPrepend(docs, i, items) ==
    IF i > Len(docs)
    THEN [raised |-> FALSE, items |-> items]
    ELSE LET p == MapDoc(docs[i])
         IN  IF p.raised
             THEN [raised |-> TRUE, items |-> items]
             ELSE MapLoopPrepend(docs, i + 1, <<p.value>> \o items)

\* The for loop, lines 128-135: items grows by one Project per record until
\* the records run out or one iteration raises.
RECURSIVE MapLoop(_, _, _)
MapLoop(docs, i, items) ==
    IF i > Len(docs)
    THEN [raised |-> FALSE, items |-> items]
    ELSE LET p == MapDoc(docs[i])
         IN  IF p.raised
             THEN [raised |-> TRUE, items |-> items]
             ELSE MapLoop(docs, i + 1, Append(items, p.value))

(***************************************************************************)
(* The document store gateway (database.get_documents and                  *)
(* database.create_document, imported at line 6) is an external            *)
(* collaborator: each call either raises with a text or returns.           *)
(***************************************************************************)
NoText == <<>>

\* The slices of test_database: str(e)[:50] and collections[:10].
ErrorSlice == 50
CollectionsSlice == 10

FetchCall(collection, out) ==
    [op |-> "get_documents", collection |-> collection, arg |-> <<>>,
     raised |-> out.raised, error |-> out.error, docs |-> out.docs, id |-> ""]

CreateCall(collection, msg, out) ==
    [op |-> "create_document", collection |-> collection, arg |-> <<msg>>,
     raised |-> out.raised, error |-> out.error, docs |-> <<>>, id |-> out.id]

(***************************************************************************)
(* GET /api/projects, lines 122-139.  out is what get_documents("projects")*)
(* does in this call.  Any exception raised inside the try block, by the   *)
(* gateway or while mapping, reaches the except clause of line 137.        *)
(***************************************************************************)
Ok(json) == [status |-> 200, body |-> json]

\* Faulty variant: no try/except, an exception becomes a 500 response.
list_projects_NoCatch(out, defaults) ==
    LET fallback == DefaultsComprehension(defaults).items
        loop == MapLoop(out.docs, 1, <<>>)
    IN  [calls |-> <<FetchCall("projects", out)>>,
         resp |-> IF out.raised
                  THEN [status |-> 500, body |-> <<>>]
                  ELSE IF out.docs = <<>> THEN Ok(fallback)
                  ELSE IF loop.raised THEN [status |-> 500, body |-> <<>>]
                  ELSE Ok(loop.items)]

\* Faulty variant: the except clause returns the items mapped so far.
list_projects_Partial(out, defaults) ==
    LET fallback == DefaultsComprehension(defaults).items
        loop == MapLoop(out.docs, 1, <<>>)
    IN  [calls |-> <<FetchCall("projects", out)>>,
         resp |-> IF out.raised THEN Ok(fallback)
                  ELSE IF out.docs = <<>> THEN Ok(fallback)
                  ELSE IF loop.raised THEN Ok(loop.items)
                  ELSE Ok(loop.items)]

list_projects(out, defaults) ==
    LET fallback == DefaultsComprehension(defaults).items
        loop == MapLoop(out.docs, 1, <<>>)
    IN  [calls |-> <<FetchCall("projects", out)>>,
         resp |-> IF out.raised THEN Ok(fallback)              \* lines 137-139
                  ELSE IF out.docs = <<>> THEN Ok(fallback)    \* lines 126-127
                  ELSE IF loop.raised THEN Ok(fallback)        \* lines 137-139
                  ELSE Ok(loop.items)]                         \* line 136

(***************************************************************************)
(* class ContactMessageIn, lines 71-74.  A body is [name, email, message]: *)
(* name and message are the lengths of the two strings, email is the       *)
(* address as a tuple of characters.                                       *)
(***************************************************************************)
NameMinLength == 2
NameMaxLength == 100
MessageMinLength == 10
MessageMaxLength == 5000

\* EmailStr: one "@", a non-empty local part, a dotted domain with no empty
\* label, and no blank anywhere.
EmailStr(e) ==
    LET ats == {i \in 1..Len(e) : e[i] = "@"}
        at == CHOOSE i \in ats : TRUE
        dots == {i \in 1..Len(e) : e[i] = "."}
    IN  /\ Cardinality(ats) = 1
        /\ \A i \in 1..Len(e) : e[i] # " "
        /\ at > 1
        /\ \E i \in dots : i > at
        /\ \A i \in dots : /\ i # 1 /\ i # Len(e)
                           /\ i - 1 \notin dots \cup ats
                           /\ i + 1 \notin ats

\* Faulty variant: min_length of name off by one.
ContactMessageInShortName(b) ==
    /\ b.name >= NameMinLength - 1 /\ b.name <= NameMaxLength
    /\ EmailStr(b.email)
    /\ b.message >= MessageMinLength /\ b.message <= MessageMaxLength

\* Faulty variant: the address is not checked.
ContactMessageInAnyEmail(b) ==
    /\ b.name >= NameMinLength /\ b.name <= NameMaxLength
    /\ b.message >= MessageMinLength /\ b.message <= MessageMaxLength

ContactMessageIn(b) ==
    /\ b.name >= NameMinLength /\ b.name <= NameMaxLength
    /\ EmailStr(b.email)
    /\ b.message >= MessageMinLength /\ b.message <= MessageMaxLength

\* Faulty variant: the detail is cut like the diagnostic endpoint's texts.
submit_contact_Truncating(msg, out) ==
    [calls |-> <<CreateCall("contact_messages", msg, out)>>,
     resp |-> IF out.raised
              THEN [status |-> 500,
                    body |-> [detail |-> Slice(StrOfException(out.error), ErrorSlice)]]
              ELSE Ok([status |-> "ok", id |-> out.id])]

\* Faulty variant: a second create_document call is made.
submit_contact_Retry(msg, out) ==
    [calls |-> <<CreateCall("contact_messages", msg, out),
                 CreateCall("contact_messages", msg, out)>>,
     resp |-> IF out.raised
              THEN [status |-> 500, body |-> [detail |-> StrOfException(out.error)]]
              ELSE Ok([status |-> "ok", id |-> out.id])]

(***************************************************************************)
(* POST /api/contact, lines 86-92, for a body that passed validation.      *)
(***************************************************************************)
submit_contact(msg, out) ==
    [calls |-> <<CreateCall("contact_messages", msg, out)>>,
     resp |-> IF out.raised
              THEN [status |-> 500, body |-> [detail |-> StrOfException(out.error)]]
              ELSE Ok([status |-> "ok", id |-> out.id])]

\* The framework parses the body into ContactMessageIn before it calls the
\* handler; a body that fails is answered 422 and the handler never runs.
post_api_contact(b, out) ==
    IF ContactMessageIn(b)
    THEN submit_contact(b, out)
    ELSE [calls |-> <<>>, resp |-> [status |-> 422, body |-> [detail |-> NoText]]]

(***************************************************************************)
(* GET / and GET /api/hello, lines 22-29.                                  *)
(***************************************************************************)
read_root == Ok([message |-> "Hello from FastAPI Backend!"])
hello == Ok([message |-> "Hello from the backend API!"])

(***************************************************************************)
(* GET /test, lines 32-65.  env is what the environment does in this call: *)
(*   import  "ok", "ImportError" or "error" (any other exception, with     *)
(*           env.error as text) for `from database import db`              *)
(*   db      whether db is not None                                        *)
(*   lists   whether db.list_collection_names() returns (env.names) or     *)
(*           raises (env.error)                                            *)
(*   url, name  whether DATABASE_URL, DATABASE_NAME are set                *)
(* Status strings are kept as tags; the error text is what is appended.    *)
(***************************************************************************)
SetOrNot(isSet) == IF isSet THEN "Set" ELSE "Not Set"

test_database(env) ==
    LET database ==
            CASE env.import = "ImportError" -> [tag |-> "module not found", err |-> NoText]
              [] env.import = "error" ->
                    [tag |-> "Error", err |-> Slice(StrOfException(env.error), ErrorSlice)]
              [] ~env.db -> [tag |-> "Available but not initialized", err |-> NoText]
              [] ~env.lists ->
                    [tag |-> "Connected but Error",
                     err |-> Slice(StrOfException(env.error), ErrorSlice)]
              [] OTHER -> [tag |-> "Connected & Working", err |-> NoText]
        connected == env.import = "ok" /\ env.db
    IN  Ok([backend |-> "Running",
            database |-> database,
            database_url |-> SetOrNot(env.url),                    \* line 63
            database_name |-> SetOrNot(env.name),                  \* line 64
            connection_status |-> IF connected THEN "Connected" ELSE "Not Connected",
            collections |-> IF connected /\ env.lists
                            THEN Slice(env.names, CollectionsSlice) ELSE <<>>])

(***************************************************************************)
(* Inputs.                                                                 *)
(***************************************************************************)
\* One optional key: the key missing, or the key with one of the values.
Optional(key, values) == {<<>>} \cup {key :> v : v \in values}

\* Records that vary the two title fields.
TitleDocs ==
    {Dict(a @@ b) :
        a \in Optional("title", {Str(""), Str("Y"), PyNone, List(""), List("a")}),
        b \in Optional("name", {Str(""), Str("X"), PyNone, List(""), List("a")})}

\* Records that vary the location and the two image fields.
DetailDocs ==
    {Dict(("title" :> Str("T")) @@ a @@ b @@ c) :
        a \in Optional("location", {Str(""), Str("L"), PyNone, List("a")}),
        b \in Optional("image", {Str(""), Str("I"), List("a")}),
        c \in Optional("image_url", {Str(""), Str("U"), List("a")})}

\* Fetched items that are not dicts.
NonMappings == {Str("oops"), PyNone, List("a")}

AllDocs == TitleDocs \cup DetailDocs \cup NonMappings

\* The records the longer fetched sequences are built from.
CoreDocs ==
    {Dict([title |-> Str("Y"), name |-> Str("X")]),
     Dict([name |-> Str("X"), image_url |-> Str("U")]),
     Dict([title |-> Str("T"), location |-> List("a")]),
     Str("oops")}

FetchedSeqs ==
    {<<d>> : d \in AllDocs} \cup UNION {[1..n -> CoreDocs] : n \in 0..MaxDocs}

ErrorTexts == {Text("d", 9), Text("t", ErrorSlice + Slack)}

FetchOutcomes ==
    {[raised |-> TRUE, error |-> e, docs |-> <<>>] : e \in ErrorTexts}
    \cup {[raised |-> FALSE, error |-> NoText, docs |-> ds] : ds \in FetchedSeqs}

CreateOutcomes ==
    {[raised |-> TRUE, error |-> e, id |-> ""] : e \in ErrorTexts}
    \cup {[raised |-> FALSE, error |-> NoText, id |-> i] : i \in {"id1", "id2"}}

Around(n) == {k \in (n - Slack)..(n + Slack) : k >= 0}

Emails ==
    { <<"a", "@", "b", ".", "c">>,
      <<"a", ".", "b", "@", "c", ".", "d">>,
      <<"a", "b", ".", "c">>,
      <<"a", "@", "b">>,
      <<"@", "b", ".", "c">>,
      <<"a", "@", "@", "b", ".", "c">>,
      <<"a", "@", "b", ".">>,
      <<"a", " ", "@", "b", ".", "c">>,
      <<>> }

\* Every name length with every message length, under a valid and an invalid
\* address; every address under a valid name and message.
ContactBodies ==
    [name : Around(NameMinLength) \cup Around(NameMaxLength),
     email : {<<"a", "@", "b", ".", "c">>, <<"a", "@", "b">>},
     message : Around(MessageMinLength) \cup Around(MessageMaxLength)]
    \cup [name : {NameMinLength}, email : Emails, message : {MessageMinLength}]

TestEnvs ==
    [import : {"ok", "ImportError", "error"},
     db : BOOLEAN,
     lists : BOOLEAN,
     error : ErrorTexts,
     names : {[i \in 1..n |-> "c"] : n \in {0, CollectionsSlice + Slack}},
     url : BOOLEAN,
     name : BOOLEAN]

(***************************************************************************)
(* The state machine: one action per route.                                *)
(***************************************************************************)
Init ==
    /\ DEFAULT_PROJECTS = InitialDefaults
    /\ endpoint = ""
    /\ body = <<>>
    /\ calls = <<>>
    /\ resp = [status |-> 0, body |-> <<>>]
    /\ served = 0

GetRoot ==
    /\ served < MaxRequests
    /\ served' = served + 1
    /\ endpoint' = "/"
    /\ body' = <<>>
    /\ calls' = <<>>
    /\ resp' = read_root
    /\ UNCHANGED DEFAULT_PROJECTS

GetHello ==
    /\ served < MaxRequests
    /\ served' = served + 1
    /\ endpoint' = "/api/hello"
    /\ body' = <<>>
    /\ calls' = <<>>
    /\ resp' = hello
    /\ UNCHANGED DEFAULT_PROJECTS

GetTest ==
    /\ served < MaxRequests
    /\ \E env \in TestEnvs :
        /\ served' = served + 1
        /\ endpoint' = "/test"
        /\ body' = <<>>
        /\ calls' = <<>>
        /\ resp' = test_database(env)
    /\ UNCHANGED DEFAULT_PROJECTS

PostContact ==
    /\ served < MaxRequests
    /\ \E b \in ContactBodies, out \in CreateOutcomes :
        LET result == post_api_contact(b, out)
        IN  /\ served' = served + 1
            /\ endpoint' = "/api/contact"
            /\ body' = <<b>>
            /\ calls' = result.calls
            /\ resp' = result.resp
    /\ UNCHANGED DEFAULT_PROJECTS

GetProjects ==
    /\ served < MaxRequests
    /\ \E out \in FetchOutcomes :
        LET result == list_projects(out, DEFAULT_PROJECTS)
        IN  /\ served' = served + 1
            /\ endpoint' = "/api/projects"
            /\ body' = <<>>
            /\ calls' = result.calls
            /\ resp' = result.resp
    /\ UNCHANGED DEFAULT_PROJECTS

Next == GetRoot \/ GetHello \/ GetTest \/ PostContact \/ GetProjects

Spec == Init /\ [][Next]_vars

(***************************************************************************)
(* Properties.  They are stated over the last exchange, with the expected  *)
(* values written out rather than taken from the handlers.                 *)
(***************************************************************************)
DefaultProjectSet ==
    << [title |-> Str("Courtyard Residence"),
        location |-> Str("Lisbon, Portugal"),
        image |-> Str("https://images.unsplash.com/photo-1501045661006-fcebe0257c3f?q=80&w=1600&auto=format&fit=crop")],
       [title |-> Str("Gallery Pavilion"),
        location |-> Str("Copenhagen, Denmark"),
        image |-> Str("https://images.unsplash.com/photo-1529429612777-95c0d0f2ad32?q=80&w=1600&auto=format&fit=crop")],
       [title |-> Str("Cliff House"),
        location |-> Str("Big Sur, USA"),
        image |-> Str("https://images.unsplash.com/photo-1519710164239-da123dc03ef4?q=80&w=1600&auto=format&fit=crop")],
       [title |-> Str("Cultural Center"),
        location |-> Str("Kyoto, Japan"),
        image |-> Str("https://images.unsplash.com/photo-1518770660439-4636190af475?q=80&w=1600&auto=format&fit=crop")] >>

DefaultTitles ==
    << Str("Courtyard Residence"), Str("Gallery Pavilion"),
       Str("Cliff House"), Str("Cultural Center") >>

\* The last exchange was a listing; Fetched is what the gateway did in it.
IsListing == endpoint = "/api/projects" /\ Len(calls) >= 1
Fetched == calls[1]
FetchedDocs == IF Fetched.raised THEN <<>> ELSE Fetched.docs

\* The last exchange was a contact submission with body Posted.
IsContact == endpoint = "/api/contact"
Posted == body[1]

\* The addresses of Emails that are syntactically valid.
ValidEmails == { <<"a", "@", "b", ".", "c">>, <<"a", ".", "b", "@", "c", ".", "d">> }

ViolatesSchema(b) ==
    \/ b.name < 2 \/ b.name > 100
    \/ b.email \notin ValidEmails
    \/ b.message < 10 \/ b.message > 5000

\* A field that is present with a non-empty value.
NonEmptyField(d, k) ==
    /\ k \in DOMAIN d.v
    /\ d.v[k].t # "none"
    /\ d.v[k].v # ""

\* The title by the documented precedence: title, then name, then "Untitled".
ExpectedTitle(d) ==
    IF NonEmptyField(d, "title") THEN d.v["title"]
    ELSE IF NonEmptyField(d, "name") THEN d.v["name"]
    ELSE Str("Untitled")

\* Every field the mapper reads is missing, None or a str.
ReadKeys == {"title", "name", "location", "image", "image_url"}
StringTyped(d) ==
    /\ d.t = "dict"
    /\ \A k \in DOMAIN d.v \cap ReadKeys : d.v[k].t \in {"str", "none"}

\* The response body is one Project per fetched record, in the store's order.
FullyMapped ==
    /\ Len(resp.body) = Len(FetchedDocs)
    /\ \A i \in 1..Len(FetchedDocs) :
          /\ ~MapDoc(FetchedDocs[i]).raised
          /\ resp.body[i] = MapDoc(FetchedDocs[i]).value

\* C1: a listing whose fetch raised, or returned no record, is answered 200
\* with exactly the four default projects, in order.
C1_FailOpen ==
    (IsListing /\ (Fetched.raised \/ Fetched.docs = <<>>))
        => resp = [status |-> 200, body |-> DefaultProjectSet]

C1_Witness ==
    /\ IsListing /\ Fetched.raised /\ Fetched.error = Text("d", 9)
    /\ resp.status = 200 /\ resp.body = DefaultProjectSet

\* C2: when create_document raises with text D for a validated body, the
\* response is a 500 whose detail is D, and never the "ok" body.
C2_FailClosed ==
    (IsContact /\ Len(calls) >= 1 /\ calls[1].raised)
        => /\ resp.status = 500
           /\ DOMAIN resp.body = {"detail"}
           /\ resp.body.detail = calls[1].error

C2_Witness ==
    /\ IsContact /\ Len(calls) = 1 /\ calls[1].raised
    /\ Len(calls[1].error) > ErrorSlice
    /\ resp.status = 500 /\ resp.body.detail = calls[1].error

\* C3: a body that violates the schema is rejected with a validation error
\* and create_document is not called for it.
C3_RejectedBeforeGateway ==
    (IsContact /\ ViolatesSchema(Posted)) => (resp.status = 422 /\ calls = <<>>)

C3_Witness ==
    /\ IsContact
    /\ Posted.name = 1 /\ Posted.email \in ValidEmails /\ Posted.message = 10
    /\ resp.status = 422 /\ calls = <<>>

\* C4: a valid body makes exactly one create_document call, on
\* "contact_messages" with that body, and a returned id I is answered
\* {"status": "ok", "id": I}.
C4_CreateOnce ==
    (IsContact /\ ~ViolatesSchema(Posted))
        => /\ Len(calls) = 1
           /\ calls[1].op = "create_document"
           /\ calls[1].collection = "contact_messages"
           /\ calls[1].arg = <<Posted>>
           /\ (~calls[1].raised =>
                 resp = [status |-> 200, body |-> [status |-> "ok", id |-> calls[1].id]])

C4_Witness ==
    /\ IsContact /\ ~ViolatesSchema(Posted)
    /\ Len(calls) = 1 /\ ~calls[1].raised /\ calls[1].id = "id2"
    /\ resp.status = 200 /\ resp.body.id = "id2"

C6_TitlePrecedence ==
    (IsListing /\ ~Fetched.raised /\ Fetched.docs # <<>>
        /\ \A i \in 1..Len(Fetched.docs) : ~MapDoc(Fetched.docs[i]).raised)
        => /\ Len(resp.body) = Len(Fetched.docs)
           /\ \A i \in 1..Len(Fetched.docs) :
                 resp.body[i].title = ExpectedTitle(Fetched.docs[i])

C6_Witness ==
    /\ IsListing /\ ~Fetched.raised
    /\ \E i \in 1..Len(Fetched.docs) :
          /\ Fetched.docs[i] = Dict([title |-> Str("Y"), name |-> Str("X")])
          /\ Len(resp.body) = Len(Fetched.docs)
          /\ resp.body[i].title = Str("Y")

\* C7: every Project of every listing response has a non-empty str title.
C7_TitleNeverEmpty ==
    IsListing
        => /\ resp.status = 200
           /\ \A i \in 1..Len(resp.body) :
                 resp.body[i].title.t = "str" /\ resp.body[i].title.v # ""

C7_Witness ==
    /\ IsListing /\ ~Fetched.raised
    /\ Fetched.docs = <<Dict([title |-> Str(""), name |-> PyNone])>>
    /\ resp.body = <<[title |-> Str("Untitled"), location |-> PyNone, image |-> PyNone]>>

\* C8: DEFAULT_PROJECTS never changes, and every listing that falls back
\* (fetch raised, no record, or a record that cannot be mapped) carries the
\* four default titles in order, whatever was served before.
C8_DefaultsStable ==
    /\ DEFAULT_PROJECTS = InitialDefaults
    /\ (IsListing /\ (\/ Fetched.raised
                      \/ Fetched.docs = <<>>
                      \/ \E i \in 1..Len(Fetched.docs) : MapDoc(Fetched.docs[i]).raised))
          => /\ Len(resp.body) = Len(DefaultTitles)
             /\ \A i \in 1..Len(DefaultTitles) : resp.body[i].title = DefaultTitles[i]

C8_Witness ==
    /\ served >= 2
    /\ IsListing /\ ~Fetched.raised /\ Fetched.docs = <<>>
    /\ Len(resp.body) = Len(DefaultTitles)
    /\ \A i \in 1..Len(DefaultTitles) : resp.body[i].title = DefaultTitles[i]

\* C9, as claimed: a fetched item that is not a dict is mapped to a Project
\* titled "Untitled" with no location and no image, at its position, and the
\* other records are mapped as usual.
C9_NonMappingGetsUntitled ==
    (IsListing /\ ~Fetched.raised
        /\ \E k \in 1..Len(Fetched.docs) : Fetched.docs[k].t # "dict")
        => /\ resp.status = 200
           /\ Len(resp.body) = Len(Fetched.docs)
           /\ \A i \in 1..Len(Fetched.docs) :
                 resp.body[i] =
                    IF Fetched.docs[i].t = "dict"
                    THEN MapDoc(Fetched.docs[i]).value
                    ELSE [title |-> Str("Untitled"), location |-> PyNone, image |-> PyNone]

\* C9, amended: a fetched item that is not a dict does not crash the
\* listing; the response is 200 with exactly the four default projects and
\* none of the fetched records.
C9_NonMappingFallsBack ==
    (IsListing /\ ~Fetched.raised
        /\ \E k \in 1..Len(Fetched.docs) : Fetched.docs[k].t # "dict")
        => resp = [status |-> 200, body |-> DefaultProjectSet]

C9_Witness ==
    /\ IsListing /\ ~Fetched.raised /\ Len(Fetched.docs) = 2
    /\ Fetched.docs[1] = Dict([title |-> Str("Y"), name |-> Str("X")])
    /\ Fetched.docs[2] = Str("oops")
    /\ resp.status = 200 /\ resp.body = DefaultProjectSet

\* C10: a listing response is the whole mapped list or the whole default
\* list, never the Projects mapped before a failure.
C10_Atomic ==
    IsListing
        => /\ resp.status = 200
           /\ \/ resp.body = DefaultProjectSet
              \/ (~Fetched.raised /\ Fetched.docs # <<>> /\ FullyMapped)

C10_Witness ==
    /\ IsListing /\ ~Fetched.raised /\ Len(Fetched.docs) = 3
    /\ ~MapDoc(Fetched.docs[1]).raised /\ ~MapDoc(Fetched.docs[2]).raised
    /\ Fetched.docs[3] = Dict([title |-> Str("T"), location |-> List("a")])
    /\ resp.body = DefaultProjectSet

====
